---- MODULE Spec2Model ----
(***************************************************************************)
(* Mailbox synchronisation and ingestion subsystem:                        *)
(*   supabase/functions/sync-emails      one sync pass for a store         *)
(*   supabase/functions/refresh-tokens   refresh-token exchange            *)
(*   supabase/functions/email-webhook    push-notification ingestion       *)
(*   src/utils/email.ts TokenManager     client-side token manager         *)
(* The relational store (tables stores, emails) and the mail provider are  *)
(* modelled by what the handlers read from and write to them.              *)
(***************************************************************************)
EXTENDS Integers, Sequences, FiniteSets, TLC

(***************************************************************************)
(* Bounds.  BATCH_SIZE, PAGE_SIZE and MAX_RETRIES are the handler's        *)
(* constants of sync-emails/index.ts lines 10, 11 and 13 (10, 15 and 5),   *)
(* scaled down so that several batches, several pages and an exhausted     *)
(* retry budget occur with a mailbox of a few messages.                    *)
(***************************************************************************)
BATCH_SIZE == 2
PAGE_SIZE == 2
MAX_RETRIES == 1
MaxClock == 1
MaxFailures == 1

\* sync-emails/index.ts line 12 (milliseconds)
RETRY_DELAY == 2000
\* sync-emails/index.ts line 118: default look-back of the window, in days
DEFAULT_LOOKBACK_DAYS == 7
\* sync-emails/index.ts line 259: default of a missing Retry-After, in seconds
DEFAULT_RETRY_AFTER == 60

\* JavaScript null / undefined, per type of the field that holds it
NoTime == -100
NoLink == 0
NoStatusCode == 0
NoHeader == -1
NoText == "null"

Min(a, b) == IF a < b THEN a ELSE b

(***************************************************************************)
(* The provider's mailbox.  A message's attributes never change.  Dates    *)
(* are days relative to the start of the run.  m1 and m4 are two copies of *)
(* one physical mail (same internetMessageId, different Graph ids); m3     *)
(* carries no conversation id and no internetMessageId; m5 is the old      *)
(* first message of conversation c1, which so has more than PAGE_SIZE      *)
(* members.                                                                *)
(***************************************************************************)
Mailbox ==
  { [id |-> "m1", conversationId |-> "c1",   internetMessageId |-> "i1",   receivedDateTime |-> -1, isRead |-> FALSE],
    [id |-> "m2", conversationId |-> "c1",   internetMessageId |-> "i2",   receivedDateTime |-> -2, isRead |-> FALSE],
    [id |-> "m3", conversationId |-> NoText, internetMessageId |-> NoText, receivedDateTime |-> -3, isRead |-> FALSE],
    [id |-> "m4", conversationId |-> "c2",   internetMessageId |-> "i1",   receivedDateTime |-> -4, isRead |-> FALSE],
    [id |-> "m5", conversationId |-> "c1",   internetMessageId |-> "i5",   receivedDateTime |-> -9, isRead |-> FALSE] }

MsgIds == { m.id : m \in Mailbox }
Msg(g) == CHOOSE m \in Mailbox : m.id = g

StoreIds == {"s1"}
USER_ID == "u1"

(***************************************************************************)
(* Sorting a set of messages by receivedDateTime (dates are distinct).     *)
(***************************************************************************)
RECURSIVE SortDesc(_)
SortDesc(S) ==
  IF S = {} THEN <<>>
  ELSE LET top == CHOOSE m \in S : \A o \in S : o.receivedDateTime <= m.receivedDateTime
       IN  <<top>> \o SortDesc(S \ {top})

RECURSIVE SortAsc(_)
SortAsc(S) ==
  IF S = {} THEN <<>>
  ELSE LET low == CHOOSE m \in S : \A o \in S : o.receivedDateTime >= m.receivedDateTime
       IN  <<low>> \o SortAsc(S \ {low})

Top(s, n) == SubSeq(s, 1, Min(n, Len(s)))

\* GET /me/messages?$filter=receivedDateTime ge from and receivedDateTime le to
\*   &$orderby=receivedDateTime desc&$top=PAGE_SIZE, and its continuation at skip
ListMessages(from, to) ==
  SortDesc({ m \in Mailbox : from <= m.receivedDateTime /\ m.receivedDateTime <= to })

MessagesPage(from, to, skip) ==
  LET all == ListMessages(from, to)
  IN  [ value    |-> SubSeq(all, skip + 1, Min(skip + PAGE_SIZE, Len(all))),
        nextLink |-> IF skip + PAGE_SIZE < Len(all) THEN skip + PAGE_SIZE ELSE NoLink ]

\* GET /me/messages?$filter=conversationId eq c&$orderby=receivedDateTime asc&$top=PAGE_SIZE
ConversationPage(c) ==
  Top(SortAsc({ m \in Mailbox : m.conversationId = c }), PAGE_SIZE)

(***************************************************************************)
(* retryOperation (sync-emails/index.ts 15-30).  script is what the        *)
(* successive invocations of the wrapped operation do: each entry is       *)
(* [ok, statusCode, value]; statusCode is NoStatusCode for an error that   *)
(* carries none.  The result records the settled outcome, the number of    *)
(* invocations and the delays slept between them.                          *)
(***************************************************************************)
\* The mutant of C15: every error is retried.
AlwaysRetryable(statusCode) == TRUE

\* line 22
Retryable(statusCode) == statusCode = 429 \/ statusCode >= 500

RECURSIVE retryOperation(_, _, _)
retryOperation(script, retries, delay) ==
  LET r == Head(script)
  IN  IF r.ok
        THEN [ok |-> TRUE, statusCode |-> NoStatusCode, value |-> r.value, calls |-> 1, waits |-> <<>>]
      ELSE IF retries > 0 /\ Retryable(r.statusCode)
        THEN LET rest == retryOperation(Tail(script), retries - 1, delay * 2)
             IN  [rest EXCEPT !.calls = @ + 1, !.waits = <<delay>> \o @]
      ELSE [ok |-> FALSE, statusCode |-> r.statusCode, value |-> r.value, calls |-> 1, waits |-> <<>>]

\* What one invocation does, by how the operation is made.
\* Graph SDK client: any non-2xx answer is thrown as an error with its statusCode.
GraphCall(http) == [ok |-> http = 200, statusCode |-> IF http = 200 THEN NoStatusCode ELSE http, value |-> http]
\* fetch(): resolves for every HTTP answer; the caller inspects response.ok.
FetchCall(http) == [ok |-> TRUE, statusCode |-> NoStatusCode, value |-> http]
\* supabase-js: the returned error (a PostgrestError, no statusCode) is thrown by the closure.
DbCall(okay) == [ok |-> okay, statusCode |-> NoStatusCode, value |-> 0]

\* The answers the provider can give to a call made with / without a live token.
Answers(tokenLive) == IF tokenLive THEN {200, 429, 503} ELSE {401, 429, 503}

RECURSIVE SeqsOfLen(_, _)
SeqsOfLen(S, n) ==
  IF n = 0 THEN {<<>>}
  ELSE { <<x>> \o s : x \in S, s \in SeqsOfLen(S, n - 1) }

Scripts(tokenLive) == SeqsOfLen(Answers(tokenLive), MAX_RETRIES + 1)

GraphScript(scr) == [k \in 1..Len(scr) |-> GraphCall(scr[k])]
FetchScript(scr) == [k \in 1..Len(scr) |-> FetchCall(scr[k])]

(***************************************************************************)
(* The emails table: a set of rows.  Unique constraints:                   *)
(*   emails_pkey (id); emails_graph_id_user_id_key (graph_id, user_id);    *)
(*   emails_internet_message_id_user_id_key (internet_message_id, user_id) *)
(*   where a NULL internet_message_id never conflicts.                     *)
(***************************************************************************)
SameGraphKey(a, b) == a.graph_id = b.graph_id /\ a.user_id = b.user_id

SameInternetKey(a, b) ==
  /\ a.internet_message_id # NoText
  /\ a.internet_message_id = b.internet_message_id
  /\ a.user_id = b.user_id

\* row r may be stored next to the rows of others
\* The mutant of C1: the table with its primary key only.
PrimaryKeyOnly(others, r) == \A o \in others : o.id # r.id

NoConstraintViolation(others, r) ==
  \A o \in others : ~SameGraphKey(o, r) /\ ~SameInternetKey(o, r) /\ o.id # r.id

\* INSERT ... ON CONFLICT (graph_id, user_id) DO UPDATE SET <every column> / DO NOTHING,
\* one statement for the whole batch: rows are taken in order, touched holds the keys
\* this statement already inserted or updated, any error rolls the statement back.
RECURSIVE UpsertFrom(_, _, _, _, _)
UpsertFrom(table, touched, batch, k, ignoreDuplicates) ==
  IF k > Len(batch) THEN [ok |-> TRUE, table |-> table]
  ELSE
    LET r     == batch[k]
        hit   == { o \in table : SameGraphKey(o, r) }
        rest  == table \ hit
    IN  IF hit # {}
          THEN IF ignoreDuplicates
                 THEN UpsertFrom(table, touched, batch, k + 1, ignoreDuplicates)
               ELSE IF r.graph_id \in touched \/ ~NoConstraintViolation(rest, r)
                 THEN [ok |-> FALSE, table |-> table]
               ELSE UpsertFrom(rest \cup {r}, touched \cup {r.graph_id}, batch, k + 1, ignoreDuplicates)
        ELSE IF ~NoConstraintViolation(table, r)
          THEN [ok |-> FALSE, table |-> table]
        ELSE UpsertFrom(table \cup {r}, touched \cup {r.graph_id}, batch, k + 1, ignoreDuplicates)

Upsert(table, batch, ignoreDuplicates) ==
  LET res == UpsertFrom(table, {}, batch, 1, ignoreDuplicates)
  IN  IF res.ok THEN res ELSE [ok |-> FALSE, table |-> table]


(***************************************************************************)
(* State.                                                                  *)
(*   clock     the current time, in days                                   *)
(*   stores    the stores table (one row per Connection)                   *)
(*   emails    the emails table                                            *)
(*   provider  the token the provider currently accepts, and the count of  *)
(*             tokens its token endpoint has issued                        *)
(*   sync      the locals and the position of one invocation of the        *)
(*             sync-emails handler                                         *)
(*   passNo    the number of the persistence run (names the fresh row ids) *)
(*   failures  how many remote calls have failed for a transient reason    *)
(*   hist      the row count the first of two persistence runs left        *)
(***************************************************************************)
VARIABLES clock, stores, emails, provider, sync, passNo, failures, hist, tm, hook, op,
          graph_subscriptions, renew

vars == <<clock, stores, emails, provider, sync, passNo, failures, hist, tm, hook, op,
          graph_subscriptions, renew>>

NoToken == -1

\* emailsToSave (sync-emails 273-289) / the webhook's row (email-webhook 93-108):
\* id is crypto.randomUUID(), modelled by a value no other row was given.
EmailRow(msg, id, store) ==
  [ id                  |-> id,
    graph_id            |-> msg.id,
    thread_id           |-> msg.conversationId,
    read                |-> msg.isRead,
    status              |-> "open",
    store_id            |-> store.id,
    user_id             |-> store.user_id,
    internet_message_id |-> msg.internetMessageId ]

InitialStore ==
  [ id |-> "s1", user_id |-> USER_ID, platform |-> "outlook",
    status |-> "active", connected |-> TRUE, last_synced |-> NoTime,
    access_token |-> 0, refresh_token |-> "r0",
    token_expires_at |-> 1, token_last_refreshed |-> NoTime ]

\* A row ingested earlier and since handled in the UI: marked read
\* (InboxContext.tsx 144-150) and resolved by a reply (send-email 103-109).
HandledRow(g) ==
  [EmailRow(Msg(g), <<0, -Msg(g).receivedDateTime>>, InitialStore)
     EXCEPT !.read = TRUE, !.status = "resolved"]

\* Tables earlier deliveries and passes can have left: rows of provider messages
\* that satisfy the unique constraints.
InitialTables ==
  { { HandledRow(g) : g \in G } : G \in
      { G \in SUBSET MsgIds :
          \A a, b \in G : a # b => ~SameInternetKey(HandledRow(a), HandledRow(b)) } }

IdleSync ==
  [ pc |-> "idle", storeId |-> NoText, syncFrom |-> NoTime, syncTo |-> NoTime,
    store |-> InitialStore, lastSynced0 |-> NoTime, accessToken |-> NoToken, attempt |-> 0,
    from |-> 0, to |-> 0,
    allEmails |-> <<>>, nextLink |-> NoLink, pageCount |-> 0,
    page |-> <<>>, pageNext |-> NoLink, k |-> 0,
    pageHttp |-> NoStatusCode, pageHeader |-> NoHeader, wait |-> 0,
    rejected401 |-> FALSE, exchange |-> "none", validated |-> FALSE,
    validationStatus |-> NoStatusCode,
    i |-> 0, savedCount |-> 0, batchesTried |-> 0, dbFaults |-> 0, persisted |-> FALSE,
    response |-> [status |-> 0, success |-> FALSE, emailsProcessed |-> 0, lastSynced |-> NoTime, error |-> NoText] ]

NoHist == [count |-> 0, clean |-> FALSE]

NumCallers == 2
Callers == 1..NumCallers

NoRefresh == 0

\* src/utils/email.ts 44-55: a TokenManager after construction (refreshInProgress is
\* an empty Map), with NumCallers calls of getValidToken(storeId = "s1") awaiting
\* acquireTokenSilent (line 63).  refreshes are the promises performTokenRefresh made.
NewTokenManager ==
  [ refreshInProgress |-> [s \in StoreIds |-> NoRefresh],
    refreshes |-> <<>>,
    callers |-> [c \in Callers |->
                   [pc |-> "silent", silentFailed |-> FALSE, role |-> "none", ref |-> NoRefresh,
                    state |-> "none", accessToken |-> NoToken]] ]

\* no call of retryOperation under study
NoOperation == [pc |-> "none"]

\* graph_subscriptions before any subscription was created
NoSubscriptions == << >>

\* renew-subscriptions/index.ts: the handler before a request arrives
IdleRenewal ==
  [ pc |-> "idle", joined |-> << >>, selected |-> << >>, idx |-> 0,
    attempted |-> {}, accepted |-> {}, calls |-> 0, http |-> NoStatusCode,
    response |-> [status |-> 0, success |-> FALSE, renewed |-> 0] ]

\* email-webhook/index.ts: the handler before a request arrives
IdleHook ==
  [ pc |-> "idle", method |-> "POST", validationToken |-> NoText, value |-> <<>>, idx |-> 0,
    attempted |-> {}, saved |-> {}, reads |-> 0, calls |-> 0, writes |-> 0,
    http |-> NoStatusCode,
    response |-> [status |-> 0, body |-> NoText, contentType |-> NoText] ]

Init ==
  /\ clock = 0
  /\ stores \in { [s \in StoreIds |-> [InitialStore EXCEPT !.last_synced = t]] : t \in {NoTime, -1} }
  /\ emails \in InitialTables
  /\ provider \in { [live |-> 0, issued |-> 0], [live |-> NoToken, issued |-> 0] }
  /\ sync = IdleSync
  /\ passNo = 0
  /\ failures = 0
  /\ hist = NoHist
  /\ tm = NewTokenManager
  /\ hook = IdleHook
  /\ op = NoOperation
  /\ graph_subscriptions = NoSubscriptions
  /\ renew = IdleRenewal


(***************************************************************************)
(* refresh-tokens (refresh-tokens/index.ts 21-203), called with a storeId. *)
(* exchange is the token endpoint's answer: "ok" (a new access token),     *)
(* "ok_rotated" (a new access token and a new refresh token),              *)
(* "invalid_grant" (400) or "server_error" (any other failure).            *)
(* The result is the stores table after the call, the HTTP status and the  *)
(* body's success flag, and the per-store results.                         *)
(***************************************************************************)
ExchangeAnswers == {"ok", "ok_rotated", "invalid_grant", "server_error"}

\* lines 108-116
InvalidGrantUpdate(store, now) ==
  [store EXCEPT !.connected = FALSE, !.status = "issue", !.token_last_refreshed = now]

\* lines 136-152
RefreshedUpdate(store, exchange, newToken, now) ==
  [store EXCEPT !.access_token = newToken,
                !.token_expires_at = now + 1,
                !.token_last_refreshed = now,
                !.connected = TRUE,
                !.status = "active",
                !.refresh_token = IF exchange = "ok_rotated" THEN "r1" ELSE @]

\* The mutant of C21: the catch disconnects the store as invalid_grant does.
RefreshFailedDisconnects(store, now) ==
  [store EXCEPT !.connected = FALSE, !.status = "issue", !.token_last_refreshed = now]

\* lines 163-173
RefreshFailedUpdate(store, now) ==
  [store EXCEPT !.token_last_refreshed = now, !.status = "issue"]

RefreshTokensHandler(tbl, storeId, exchange, newToken, now) ==
  IF storeId \notin DOMAIN tbl \/ tbl[storeId].platform # "outlook"
    THEN [stores |-> tbl, status |-> 400, success |-> FALSE, results |-> <<>>, issued |-> FALSE]
  ELSE LET store == tbl[storeId] IN
    IF store.refresh_token = NoText
      THEN [stores |-> tbl, status |-> 200, success |-> TRUE, results |-> <<>>, issued |-> FALSE]
    ELSE IF exchange = "invalid_grant"
      THEN [stores |-> [tbl EXCEPT ![storeId] = InvalidGrantUpdate(store, now)],
            status |-> 200, success |-> TRUE,
            results |-> << [storeId |-> storeId, success |-> FALSE] >>, issued |-> FALSE]
    ELSE IF exchange = "server_error"
      THEN [stores |-> [tbl EXCEPT ![storeId] = RefreshFailedUpdate(store, now)],
            status |-> 200, success |-> TRUE,
            results |-> << [storeId |-> storeId, success |-> FALSE] >>, issued |-> FALSE]
    ELSE [stores |-> [tbl EXCEPT ![storeId] = RefreshedUpdate(store, exchange, newToken, now)],
          status |-> 200, success |-> TRUE,
          results |-> << [storeId |-> storeId, success |-> TRUE] >>, issued |-> TRUE]

(***************************************************************************)
(* sync-emails (sync-emails/index.ts 32-364): one action per remote call.  *)
(***************************************************************************)
TokenLive(token) == token # NoToken /\ token = provider.live

ErrorResponse(msg) ==
  [status |-> 400, success |-> FALSE, emailsProcessed |-> 0, lastSynced |-> NoTime, error |-> msg]

\* lines 117-119
SyncFromDate(syncFrom, now) == IF syncFrom # NoTime THEN syncFrom ELSE now - DEFAULT_LOOKBACK_DAYS
SyncToDate(syncTo, now) == IF syncTo # NoTime THEN syncTo ELSE now

\* lines 49-123: the request is parsed, the store is read, the window is computed
StartSync(storeId, syncFrom, syncTo) ==
  /\ sync.pc = "idle"
  /\ passNo' = passNo + 1
  /\ LET base == [IdleSync EXCEPT !.storeId = storeId, !.syncFrom = syncFrom, !.syncTo = syncTo,
                                  !.lastSynced0 = stores["s1"].last_synced]
     IN  sync' =
           IF storeId = NoText
             THEN [base EXCEPT !.pc = "done", !.response = ErrorResponse("Store ID is required")]
           ELSE IF storeId \notin DOMAIN stores
             THEN [base EXCEPT !.pc = "done", !.response = ErrorResponse("storeError")]
           ELSE [base EXCEPT !.pc = "validating",
                             !.store = stores[storeId],
                             !.accessToken = stores[storeId].access_token,
                             !.from = SyncFromDate(syncFrom, clock),
                             !.to = SyncToDate(syncTo, clock)]
  /\ UNCHANGED <<clock, stores, emails, provider, failures, hist, tm, hook, op, graph_subscriptions, renew>>

\* line 167: testTokenWithRetry(1)
TEST_TOKEN_MAX_RETRIES == 1

\* The mutant of C8: line 140 without its bound on the attempts.
ShouldRefreshUnbounded(statusCode, attempt, maxRetries) == statusCode = 401

\* line 140
ShouldRefresh(statusCode, attempt, maxRetries) == statusCode = 401 /\ attempt < maxRetries

\* The mutant of C25: the else branch of line 150 marks the store as synchronized.
TokenInvalidMarksActive(store, now) ==
  [store EXCEPT !.status = "active", !.connected = TRUE, !.last_synced = now]

\* lines 152-159
TokenInvalidUpdate(store, now) ==
  [store EXCEPT !.status = "issue", !.connected = FALSE, !.last_synced = now]

\* a failed call counts against the bound on transient failures unless it is the
\* provider's rejection of a dead token
Charge(res) == IF res.ok \/ res.statusCode = 401 THEN 0 ELSE 1

\* lines 127-163: one turn of testTokenWithRetry's loop up to its remote call
ValidateToken ==
  /\ sync.pc = "validating"
  /\ \E scr \in Scripts(TokenLive(sync.accessToken)) :
       LET res == retryOperation(GraphScript(scr), MAX_RETRIES, RETRY_DELAY) IN
       /\ failures + Charge(res) <= MaxFailures
       /\ failures' = failures + Charge(res)
       /\ IF res.ok
            THEN /\ sync' = [sync EXCEPT !.pc = "fetching", !.validated = TRUE,
                                         !.validationStatus = res.statusCode]
                 /\ UNCHANGED stores
          ELSE IF ShouldRefresh(res.statusCode, sync.attempt, TEST_TOKEN_MAX_RETRIES)
            THEN /\ sync' = [sync EXCEPT !.pc = "refreshing", !.rejected401 = TRUE,
                                         !.validationStatus = res.statusCode]
                 /\ UNCHANGED stores
          ELSE /\ stores' = [stores EXCEPT ![sync.storeId] = TokenInvalidUpdate(@, clock)]
               /\ sync' = [sync EXCEPT !.pc = "done",
                                       !.rejected401 = @ \/ res.statusCode = 401,
                                       !.validationStatus = res.statusCode,
                                       !.response = ErrorResponse("Invalid or expired access token")]
  /\ UNCHANGED <<clock, emails, provider, passNo, hist, tm, hook, op, graph_subscriptions, renew>>

\* line 87
RefreshReported(reply) == reply.success

\* lines 71-103 and 143-149: refreshTokenIfNeeded, then the loop's next turn
RefreshToken ==
  /\ sync.pc = "refreshing"
  /\ \E exchange \in ExchangeAnswers :
       LET newToken == provider.issued + 1
           reply    == RefreshTokensHandler(stores, sync.storeId, exchange, newToken, clock)
           charge   == IF exchange = "server_error" THEN 1 ELSE 0
           attempt  == sync.attempt + 1
       IN
       /\ failures + charge <= MaxFailures
       /\ failures' = failures + charge
       /\ stores' = reply.stores
       /\ provider' = IF reply.issued THEN [live |-> newToken, issued |-> newToken] ELSE provider
       /\ sync' =
            IF reply.status # 200
              THEN [sync EXCEPT !.pc = "done", !.exchange = exchange,
                                !.response = ErrorResponse("Token refresh failed")]
            ELSE IF ~RefreshReported(reply)
              THEN [sync EXCEPT !.pc = "done", !.exchange = exchange,
                                !.response = ErrorResponse("Token refresh failed")]
            ELSE [sync EXCEPT !.pc = IF attempt <= TEST_TOKEN_MAX_RETRIES THEN "validating" ELSE "fetching",
                              !.exchange = IF stores[sync.storeId].refresh_token = NoText THEN "none" ELSE exchange,
                              !.attempt = attempt,
                              !.accessToken = reply.stores[sync.storeId].access_token]
  /\ UNCHANGED <<clock, emails, passNo, hist, tm, hook, op, graph_subscriptions, renew>>


\* line 268 and lines 270-272: the do/while condition, then what follows the loop
AfterLoopTurn(s) ==
  IF s.nextLink # NoLink THEN [s EXCEPT !.pc = "fetching"]
  ELSE IF Len(s.allEmails) > 0 THEN [s EXCEPT !.pc = "persisting", !.i = 0, !.savedCount = 0]
  ELSE [s EXCEPT !.pc = "finalizing", !.persisted = TRUE]

\* The mutant of C28: the end of the try block starts the page's messages over.
EndOfPageStartsOver(s) == [s EXCEPT !.k = 1]

\* lines 244-249: the end of the try block
EndOfPage(s) == AfterLoopTurn([s EXCEPT !.nextLink = s.pageNext])

\* lines 179-206: the page request.  A continuation page is requested with fetch(),
\* whose non-2xx answer becomes a plain Error (line 191); the first page is requested
\* through the Graph client, whose error carries the statusCode.
PageRequest(scr, nextLink) ==
  IF nextLink # NoLink
    THEN LET r == retryOperation(FetchScript(scr), MAX_RETRIES, RETRY_DELAY)
         IN  [ok |-> r.value = 200, statusCode |-> NoStatusCode, http |-> r.value]
  ELSE LET r == retryOperation(GraphScript(scr), MAX_RETRIES, RETRY_DELAY)
       IN  [ok |-> r.ok, statusCode |-> r.statusCode, http |-> r.value]

\* The mutant of C26: the catch also drops what was collected.
StopAndDiscard(s) == [s EXCEPT !.nextLink = NoLink, !.allEmails = <<>>]

\* lines 265-266
StopPagination(s) == [s EXCEPT !.nextLink = NoLink]

\* line 258 (a thrown Error or GraphError has no response property)
IsRateLimited(statusCode) == statusCode = 429

\* line 259: parseInt(error.headers?.get('Retry-After') || '60')
RetryAfterSeconds(header) == IF header = NoHeader THEN DEFAULT_RETRY_AFTER ELSE header

RetryAfterHeaders == {NoHeader, 5}

Ids(msgs) == [j \in 1..Len(msgs) |-> msgs[j].id]

\* lines 173-211 and 250-268: one turn of the pagination loop up to the page's answer
FetchPage ==
  /\ sync.pc = "fetching"
  /\ \E scr \in Scripts(TokenLive(sync.accessToken)), header \in RetryAfterHeaders :
       LET res   == PageRequest(scr, sync.nextLink)
           skip  == sync.nextLink
           resp  == MessagesPage(sync.from, sync.to, skip)
           s1    == [sync EXCEPT !.pageCount = @ + 1, !.pageHttp = res.http,
                                 !.pageHeader = IF res.http = 429 THEN header ELSE NoHeader]
           charge == IF res.http \in {200, 401} THEN 0 ELSE 1
       IN
       /\ failures + charge <= MaxFailures
       /\ failures' = failures + charge
       /\ sync' =
            IF res.ok
              THEN LET s2 == [s1 EXCEPT !.page = Ids(resp.value), !.pageNext = resp.nextLink, !.k = 1]
                   IN  IF Len(resp.value) = 0 THEN EndOfPage(s2) ELSE [s2 EXCEPT !.pc = "expanding"]
            ELSE IF IsRateLimited(res.statusCode)
              THEN AfterLoopTurn([s1 EXCEPT !.wait = RetryAfterSeconds(header) * 1000])
            ELSE AfterLoopTurn(StopPagination(s1))
  /\ UNCHANGED <<clock, stores, emails, provider, passNo, hist, tm, hook, op, graph_subscriptions, renew>>

\* lines 228-231
NewMessages(conversation, allEmails) ==
  SelectSeq(conversation, LAMBDA g : \A j \in 1..Len(allEmails) : allEmails[j] # g)

\* lines 214-242: one message of the page
ExpandMessage ==
  /\ sync.pc = "expanding"
  /\ LET email == Msg(sync.page[sync.k])
         done(all) == LET s1 == [sync EXCEPT !.allEmails = all, !.k = @ + 1]
                      IN  IF sync.k + 1 > Len(sync.page) THEN EndOfPage(s1) ELSE s1
     IN  IF email.conversationId # NoText
           THEN \E scr \in Scripts(TokenLive(sync.accessToken)) :
                  LET res == retryOperation(GraphScript(scr), MAX_RETRIES, RETRY_DELAY)
                      charge == Charge(res)
                  IN  /\ failures + charge <= MaxFailures
                      /\ failures' = failures + charge
                      /\ sync' = IF res.ok
                                   THEN done(sync.allEmails \o
                                             NewMessages(Ids(ConversationPage(email.conversationId)), sync.allEmails))
                                 ELSE done(Append(sync.allEmails, email.id))
         ELSE /\ sync' = done(Append(sync.allEmails, email.id))
              /\ UNCHANGED failures
  /\ UNCHANGED <<clock, stores, emails, provider, passNo, hist, tm, hook, op, graph_subscriptions, renew>>

\* lines 273-289
EmailsToSave(allEmails, store, pass) ==
  [j \in 1..Len(allEmails) |-> EmailRow(Msg(allEmails[j]), <<pass, j>>, store)]

\* line 306
SYNC_IGNORE_DUPLICATES == FALSE

\* lines 293-322: one batch
SaveBatch ==
  /\ sync.pc = "persisting"
  /\ \E dbUp \in BOOLEAN :
       LET toSave == EmailsToSave(sync.allEmails, sync.store, passNo)
           batch  == SubSeq(toSave, sync.i + 1, Min(sync.i + BATCH_SIZE, Len(toSave)))
           up     == Upsert(emails, batch, SYNC_IGNORE_DUPLICATES)
           res    == retryOperation([j \in 1..(MAX_RETRIES + 1) |-> DbCall(dbUp /\ up.ok)],
                                    MAX_RETRIES, RETRY_DELAY)
           charge == IF dbUp THEN 0 ELSE 1
           next   == sync.i + BATCH_SIZE
           s1     == [sync EXCEPT !.i = next, !.batchesTried = @ + 1, !.dbFaults = @ + charge,
                                  !.savedCount = IF res.ok THEN @ + Len(batch) ELSE @]
       IN
       /\ failures + charge <= MaxFailures
       /\ failures' = failures + charge
       /\ emails' = IF res.ok THEN up.table ELSE emails
       /\ sync' = IF next < Len(toSave) THEN s1 ELSE [s1 EXCEPT !.pc = "finalizing", !.persisted = TRUE]
  /\ UNCHANGED <<clock, stores, provider, passNo, hist, tm, hook, op, graph_subscriptions, renew>>

\* The mutant of C14: a final update that writes nothing.
NotSyncedUpdate(store, now) == store

\* lines 325-332
SyncedUpdate(store, now) ==
  [store EXCEPT !.last_synced = now, !.status = "active", !.connected = TRUE]

\* line 341
EmailsProcessed(s) == Len(s.allEmails)

\* lines 325-345
FinalUpdate ==
  /\ sync.pc = "finalizing"
  /\ \E dbUp \in BOOLEAN :
       LET charge == IF dbUp THEN 0 ELSE 1 IN
       /\ failures + charge <= MaxFailures
       /\ failures' = failures + charge
       /\ stores' = IF dbUp THEN [stores EXCEPT ![sync.storeId] = SyncedUpdate(@, clock)] ELSE stores
       /\ sync' = [sync EXCEPT !.pc = "done",
                               !.response = IF dbUp
                                 THEN [status |-> 200, success |-> TRUE, emailsProcessed |-> EmailsProcessed(sync),
                                       lastSynced |-> clock, error |-> NoText]
                                 ELSE ErrorResponse("updateError")]
  /\ UNCHANGED <<clock, emails, provider, passNo, hist, tm, hook, op, graph_subscriptions, renew>>

\* the handler has returned its response
FinishSync ==
  /\ sync.pc = "done"
  /\ sync' = [sync EXCEPT !.pc = "returned"]
  /\ UNCHANGED <<clock, stores, emails, provider, passNo, failures, hist, tm, hook, op, graph_subscriptions, renew>>

(***************************************************************************)
(* The environment.                                                        *)
(***************************************************************************)
Tick ==
  /\ clock < MaxClock
  /\ clock' = clock + 1
  /\ UNCHANGED <<stores, emails, provider, sync, passNo, failures, hist, tm, hook, op, graph_subscriptions, renew>>

\* the provider stops accepting the access token (expiry, revocation)
TokenExpires ==
  /\ provider.live # NoToken
  /\ provider' = [provider EXCEPT !.live = NoToken]
  /\ UNCHANGED <<clock, stores, emails, sync, passNo, failures, hist, tm, hook, op, graph_subscriptions, renew>>

SyncRequests == { <<NoText, NoTime, NoTime>>, <<"s404", NoTime, NoTime>>,
                  <<"s1", NoTime, NoTime>>, <<"s1", -2, NoTime>> }

Next ==
  \/ \E rq \in SyncRequests : StartSync(rq[1], rq[2], rq[3])
  \/ ValidateToken
  \/ RefreshToken
  \/ FetchPage
  \/ ExpandMessage
  \/ SaveBatch
  \/ FinalUpdate
  \/ FinishSync
  \/ Tick
  \/ TokenExpires

Spec == Init /\ [][Next]_vars


(***************************************************************************)
(* The batched persistence of a message list, run twice over the same list *)
(* (sync-emails/index.ts 272-323).  The list is any list the fetch loop    *)
(* can accumulate, repeated ids included (line 240 appends without the     *)
(* filter of lines 228-231).                                               *)
(***************************************************************************)
MaxListLen == 3

MessageLists == UNION { SeqsOfLen(MsgIds, n) : n \in 1..MaxListLen }

PersistingSync(list) ==
  [IdleSync EXCEPT !.pc = "persisting", !.storeId = "s1", !.store = InitialStore,
                   !.accessToken = InitialStore.access_token,
                   !.allEmails = list, !.i = 0, !.savedCount = 0]

PersistInit ==
  /\ clock = 0
  /\ stores = [s \in StoreIds |-> InitialStore]
  /\ emails \in InitialTables
  /\ provider = [live |-> 0, issued |-> 0]
  /\ sync \in { PersistingSync(list) : list \in MessageLists }
  /\ passNo = 1
  /\ failures = 0
  /\ hist = NoHist
  /\ tm = NewTokenManager
  /\ hook = IdleHook
  /\ op = NoOperation
  /\ graph_subscriptions = NoSubscriptions
  /\ renew = IdleRenewal

\* the same list is given to lines 272-323 a second time; hist keeps what the first
\* run left
Rerun ==
  /\ sync.pc = "finalizing"
  /\ passNo = 1
  /\ hist' = [count |-> Cardinality(emails), clean |-> sync.dbFaults = 0]
  /\ passNo' = 2
  /\ sync' = [PersistingSync(sync.allEmails) EXCEPT !.persisted = TRUE]
  /\ UNCHANGED <<clock, stores, emails, provider, failures, tm, hook, op, graph_subscriptions, renew>>

PersistNext == SaveBatch \/ Rerun

PersistSpec == PersistInit /\ [][PersistNext]_vars

UniqueKeys(table) ==
  \A a, b \in table : a # b => ~SameGraphKey(a, b) /\ ~SameInternetKey(a, b)

\* C1: Idempotent ingestion: for every message list M and every initial emails table,
\* running the batched persistence over M twice leaves as many stored rows as running
\* it once (every upsert call reaching the database), and no two stored rows ever
\* share (graph_id, user_id) or a non-null (internet_message_id, user_id).
C1_IdempotentIngestion ==
  /\ UniqueKeys(emails)
  /\ (passNo = 2 /\ sync.pc = "finalizing" /\ hist.clean /\ sync.dbFaults = 0)
       => Cardinality(emails) = hist.count

C1_Witness ==
  /\ passNo = 2
  /\ sync.pc = "finalizing"
  /\ hist.clean
  /\ sync.dbFaults = 0
  /\ sync.batchesTried > 1
  /\ sync.savedCount > 0
  /\ sync.savedCount < Len(sync.allEmails)
  /\ Cardinality(emails) = hist.count
  /\ \E r \in emails : r.id[1] = 2

(***************************************************************************)
(* Claims about one sync pass (checked under Spec).                        *)
(***************************************************************************)
SyncEnded == sync.pc \in {"done", "returned"}

NumBatches(n) == (n + BATCH_SIZE - 1) \div BATCH_SIZE

\* C4: Partial-failure resilience: in a sync pass whose accumulated messages form n
\* batches, if the upsert of batch k fails, every batch k+1..n is still attempted, and
\* the messages of the batches that succeed are what is counted and reported to the
\* caller as the number of messages processed.
C4_ReportsSavedCount ==
  (SyncEnded /\ sync.response.success) =>
     /\ sync.batchesTried = NumBatches(Len(sync.allEmails))
     /\ sync.response.emailsProcessed = sync.savedCount

\* C5: Window monotonicity: a pass started without an explicit syncFrom for a
\* Connection that already has a last-synchronized timestamp T (and stored messages)
\* sends the provider a time filter whose lower bound is T, never an earlier instant.
C5_WindowStartsAtLastSynced ==
  ( /\ sync.pc \notin {"idle", "done", "returned"}
    /\ sync.syncFrom = NoTime
    /\ sync.store.last_synced # NoTime
    /\ \E r \in emails : r.store_id = sync.storeId )
  => sync.from >= sync.store.last_synced

\* C7: Rate-limit resume during pagination: when the provider answers a page request
\* with 429 (first page or continuation page), the fetch loop waits at least the
\* provider-indicated Retry-After duration and then requests that same page again
\* instead of ending pagination, and the messages collected so far are kept.
C7_RateLimitedPageIsRequestedAgain ==
  [][ ( /\ sync.pc = "fetching"
        /\ sync'.pageCount = sync.pageCount + 1
        /\ sync'.pageHttp = 429 )
      => ( /\ sync'.pc = "fetching"
           /\ sync'.nextLink = sync.nextLink
           /\ sync'.allEmails = sync.allEmails
           /\ sync'.pageHeader # NoHeader => sync'.wait >= sync'.pageHeader * 1000 ) ]_vars

\* C8: invalid_grant outcome: if during a sync pass the validation call is rejected
\* with 401 and the refresh-token exchange returns invalid_grant, then when the pass
\* ends the Connection has status issue and connected = false, no message has been
\* fetched or persisted by the pass, and the pass returns an error to its caller.
C8_InvalidGrantOutcome ==
  (SyncEnded /\ sync.rejected401 /\ sync.exchange = "invalid_grant") =>
     /\ stores[sync.storeId].status = "issue"
     /\ stores[sync.storeId].connected = FALSE
     /\ sync.pageCount = 0
     /\ sync.allEmails = <<>>
     /\ sync.batchesTried = 0
     /\ ~sync.response.success
     /\ sync.response.status = 400

C8_Witness ==
  /\ sync.pc = "returned"
  /\ sync.rejected401
  /\ sync.exchange = "invalid_grant"
  /\ sync.attempt = 1
  /\ sync.response.error = "Invalid or expired access token"

\* C9: A sync pass that fails (returns an error to the caller, for any reason)
\* leaves the Connection's last_synced timestamp exactly as it was before the pass.
C9_FailedPassKeepsLastSynced ==
  (SyncEnded /\ ~sync.response.success) => stores["s1"].last_synced = sync.lastSynced0

\* C10: Re-sync does not overwrite: a sync pass that fetches a provider message whose
\* row (graph_id, user_id) is already stored leaves every column of that row
\* unchanged, including its internal id and the UI-owned status and read fields.
C10_ResyncLeavesRowsUnchanged ==
  [][ sync.pc = "persisting" => \A r \in emails : r \in emails' ]_vars

(***************************************************************************)
(* TokenManager (src/utils/email.ts 44-136): NumCallers calls of           *)
(* getValidToken for store "s1" on one TokenManager, each awaiting         *)
(* acquireTokenSilent in the initial state.                                *)
(***************************************************************************)
\* The mutant of C2: line 87 never finds a refresh in progress.
HasNoRefreshInProgress(map, storeId) == FALSE

\* line 87: this.refreshInProgress.has(storeId)
HasRefreshInProgress(map, storeId) == map[storeId] # NoRefresh

Settled(refresh) == refresh.state # "pending"

\* lines 63-73 and 141-162: acquireTokenSilent answers with a token, which is stored
SilentTokenUpdate(store, newToken, now) ==
  [store EXCEPT !.access_token = newToken, !.token_expires_at = now + 1,
                !.token_last_refreshed = now]

SilentSucceeds(c) ==
  /\ tm.callers[c].pc = "silent"
  /\ LET newToken == provider.issued + 1 IN
     /\ provider' = [live |-> newToken, issued |-> newToken]
     /\ stores' = [stores EXCEPT !["s1"] = SilentTokenUpdate(@, newToken, clock)]
     /\ tm' = [tm EXCEPT !.callers[c] = [@ EXCEPT !.pc = "returned", !.state = "resolved",
                                                  !.accessToken = newToken]]
  /\ UNCHANGED <<clock, emails, sync, passNo, failures, hist, hook, op, graph_subscriptions, renew>>

\* lines 74-78 and 85-94: acquireTokenSilent throws; refreshTokenServerSide runs up to
\* its await (line 88 or line 97)
SilentFails(c) ==
  /\ tm.callers[c].pc = "silent"
  /\ IF HasRefreshInProgress(tm.refreshInProgress, "s1")
       THEN tm' = [tm EXCEPT !.callers[c] = [@ EXCEPT !.pc = "awaiting", !.silentFailed = TRUE,
                                                      !.role = "joined",
                                                      !.ref = tm.refreshInProgress["s1"]]]
     ELSE LET r == Len(tm.refreshes) + 1 IN
          tm' = [tm EXCEPT !.refreshes = Append(@, [state |-> "pending", accessToken |-> NoToken, by |-> c]),
                           !.refreshInProgress["s1"] = r,
                           !.callers[c] = [@ EXCEPT !.pc = "awaiting", !.silentFailed = TRUE,
                                                    !.role = "leader", !.ref = r]]
  /\ UNCHANGED <<clock, stores, emails, provider, sync, passNo, failures, hist, hook, op, graph_subscriptions, renew>>

\* line 115
FindResult(results, storeId) ==
  LET hits == SelectSeq(results, LAMBDA r : r.storeId = storeId)
  IN  IF Len(hits) = 0 THEN [found |-> FALSE] ELSE [found |-> TRUE, success |-> hits[1].success]

\* lines 108-135: what performTokenRefresh makes of the function's reply and of the
\* stores row it reads afterwards
performTokenRefresh(reply, storeId) ==
  LET result == FindResult(reply.results, storeId) IN
  IF reply.status # 200 \/ ~reply.success
    THEN [state |-> "rejected", accessToken |-> NoToken]
  ELSE IF ~result.found \/ ~result.success
    THEN [state |-> "rejected", accessToken |-> NoToken]
  ELSE IF reply.stores[storeId].access_token = NoToken
    THEN [state |-> "rejected", accessToken |-> NoToken]
  ELSE [state |-> "resolved", accessToken |-> reply.stores[storeId].access_token]

\* The entry outlives the refresh that put it there.
KeepEntry(map, storeId) == map

\* line 100: this.refreshInProgress.delete(storeId)
DeleteEntry(map, storeId) == [map EXCEPT ![storeId] = NoRefresh]

\* lines 88-89 and 97-98: the await of the settled promise resumes; the caller returns
\* the access token or throws the error of the refresh
Resume(caller, refresh) ==
  [caller EXCEPT !.pc = "returned", !.state = refresh.state, !.accessToken = refresh.accessToken]

\* lines 107-136, 88-89 and 96-101: the refresh-tokens function answers and the promise
\* settles.  The awaits of the promise (the starter's at line 97, registered first, and
\* the joined callers' at line 88) resume in the jobs queued by the settlement, ahead of
\* the next event that can bring a call of getValidToken: the starter's finally deletes
\* the map entry.
RefreshSettles(r) ==
  /\ r \in 1..Len(tm.refreshes)
  /\ tm.refreshes[r].state = "pending"
  /\ \E exchange \in ExchangeAnswers :
       LET newToken == provider.issued + 1
           reply    == RefreshTokensHandler(stores, "s1", exchange, newToken, clock)
           outcome  == performTokenRefresh(reply, "s1")
           charge   == IF exchange = "server_error" THEN 1 ELSE 0
           settled  == [tm.refreshes[r] EXCEPT !.state = outcome.state,
                                               !.accessToken = outcome.accessToken]
       IN
       /\ failures + charge <= MaxFailures
       /\ failures' = failures + charge
       /\ stores' = reply.stores
       /\ provider' = IF reply.issued THEN [live |-> newToken, issued |-> newToken] ELSE provider
       /\ tm' = [tm EXCEPT !.refreshes[r] = settled,
                           !.callers = [c \in Callers |->
                               IF tm.callers[c].pc = "awaiting" /\ tm.callers[c].ref = r
                                 THEN Resume(tm.callers[c], settled) ELSE tm.callers[c]],
                           !.refreshInProgress = DeleteEntry(@, "s1")]
  /\ UNCHANGED <<clock, emails, sync, passNo, hist, hook, op, graph_subscriptions, renew>>

TokenInit ==
  /\ clock = 0
  /\ stores \in { [s \in StoreIds |-> [InitialStore EXCEPT !.refresh_token = t]] : t \in {"r0", NoText} }
  /\ emails = {}
  /\ provider = [live |-> NoToken, issued |-> 0]
  /\ sync = IdleSync
  /\ passNo = 0
  /\ failures = 0
  /\ hist = NoHist
  /\ tm = NewTokenManager
  /\ hook = IdleHook
  /\ op = NoOperation
  /\ graph_subscriptions = NoSubscriptions
  /\ renew = IdleRenewal

TokenNext ==
  \/ \E c \in Callers : SilentSucceeds(c)
  \/ \E c \in Callers : SilentFails(c)
  \/ \E r \in 1..NumCallers : RefreshSettles(r)

TokenSpec == TokenInit /\ [][TokenNext]_vars

AllReturnedAfterSilentFailure ==
  \A c \in Callers : tm.callers[c].pc = "returned" /\ tm.callers[c].silentFailed

Pending == { r \in 1..Len(tm.refreshes) : tm.refreshes[r].state = "pending" }

MaxEntries == 2

EmptyText == ""
NoResource == << "undefined" >>

\* the rows of graph_subscriptions read at lines 48-52
GraphSubscriptions ==
  { [subscription_id |-> "sub1", store_id |-> "s1",   client_state |-> "cs1"],
    [subscription_id |-> "sub2", store_id |-> "s404", client_state |-> "cs1"],
    [subscription_id |-> "sub3", store_id |-> "s1",   client_state |-> "cs3"] }

\* String.prototype.split(separator): the pieces between the occurrences
RECURSIVE SplitFrom(_, _, _, _)
SplitFrom(text, separator, k, piece) ==
  IF k > Len(text) THEN << piece >>
  ELSE IF text[k] = separator THEN << piece >> \o SplitFrom(text, separator, k + 1, <<>>)
  ELSE SplitFrom(text, separator, k + 1, Append(piece, text[k]))

Split(text, separator) == SplitFrom(text, separator, 1, <<>>)

\* line 86: resource.split('messages/')[1] inside the template literal
ResourceMessageId(resource) ==
  LET pieces == Split(resource, "messages/")
  IN  IF Len(pieces) < 2 THEN << "undefined" >> ELSE pieces[2]

\* GET /me/messages/{id} finds the message whose id is the whole path segment
Found(path) == { g \in MsgIds : path = << g >> }

NotificationFor(g) ==
  [isNull |-> FALSE, subscriptionId |-> "sub1", clientState |-> "cs1",
   resource |-> << "Users/u1/", "messages/", g >>]

NullEntry == [NotificationFor("m1") EXCEPT !.isNull = TRUE]

Entries ==
  { NullEntry, NotificationFor("m1"), NotificationFor("m4"),
    [NotificationFor("m1") EXCEPT !.subscriptionId = "sub9"],
    [NotificationFor("m1") EXCEPT !.clientState = "other"],
    [NotificationFor("m1") EXCEPT !.subscriptionId = "sub2"],
    [NotificationFor("m1") EXCEPT !.resource = NoResource],
    [NotificationFor("m1") EXCEPT !.resource = << "Users/u1/", "mailFolders/", "inbox" >>] }

Payloads == UNION { SeqsOfLen(Entries, n) : n \in 0..MaxEntries }

\* The mutant of C6: line 20 never takes the validation branch.
NeverValidation(validationToken) == FALSE

\* line 20: if (validationToken)
IsValidationRequest(validationToken) ==
  validationToken # NoText /\ validationToken # EmptyText

\* lines 10-41: the request arrives; the handler runs up to the notification loop
Receive(method, validationToken, value) ==
  /\ hook.pc = "idle"
  /\ LET h == [hook EXCEPT !.method = method, !.validationToken = validationToken,
                           !.value = value]
     IN  hook' =
           IF method = "OPTIONS"
             THEN [h EXCEPT !.pc = "done",
                            !.response = [status |-> 200, body |-> "ok", contentType |-> NoText]]
           ELSE IF IsValidationRequest(validationToken)
             THEN [h EXCEPT !.pc = "done",
                            !.response = [status |-> 200, body |-> validationToken,
                                          contentType |-> "text/plain"]]
           ELSE [h EXCEPT !.pc = "loop", !.idx = 1]
  /\ UNCHANGED <<clock, stores, emails, provider, sync, passNo, failures, hist, tm, op, graph_subscriptions, renew>>

\* lines 126-129
WebhookTokenInvalidUpdate(store) == [store EXCEPT !.status = "issue", !.connected = FALSE]

\* line 110
WEBHOOK_IGNORE_DUPLICATES == TRUE

\* The mutant of C11: line 59 accepts any clientState.
AnyClientState(subscription, entry) == FALSE

\* line 59
ClientStateMismatch(subscription, entry) == subscription.client_state # entry.clientState

\* lines 44-133: one turn of the loop over payload.value
ProcessNotification ==
  /\ hook.pc = "loop"
  /\ hook.idx <= Len(hook.value)
  /\ LET entry  == hook.value[hook.idx]
         next(h) == [h EXCEPT !.idx = @ + 1]
         subs   == { g \in GraphSubscriptions : g.subscription_id = entry.subscriptionId }
         sub    == CHOOSE g \in subs : TRUE
         skip(h) == /\ hook' = next(h)
                    /\ UNCHANGED <<stores, emails, failures, op>>
     IN
     IF entry.isNull
       THEN /\ hook' = [hook EXCEPT !.pc = "done",
                                    !.response = [status |-> 400, body |-> "error",
                                                  contentType |-> "application/json"]]
            /\ UNCHANGED <<stores, emails, failures, op>>
     ELSE IF subs = {} THEN skip([hook EXCEPT !.reads = @ + 1])
     ELSE IF ClientStateMismatch(sub, entry) THEN skip([hook EXCEPT !.reads = @ + 1])
     ELSE IF sub.store_id \notin DOMAIN stores THEN skip([hook EXCEPT !.reads = @ + 2])
     ELSE IF entry.resource = NoResource THEN skip([hook EXCEPT !.reads = @ + 2])
     ELSE
       LET store == stores[sub.store_id]
           found == Found(ResourceMessageId(entry.resource))
           h1    == [hook EXCEPT !.reads = @ + 2, !.calls = @ + 1, !.attempted = @ \cup {hook.idx}]
           answers == IF ~TokenLive(store.access_token) THEN {401, 503}
                      ELSE IF found = {} THEN {404, 503} ELSE {200, 503}
       IN  \E http \in answers, dbUp \in BOOLEAN :
             LET row == EmailRow(Msg(CHOOSE g \in found : TRUE), <<-1, hook.idx>>, store)
                 up  == Upsert(emails, << row >>, WEBHOOK_IGNORE_DUPLICATES)
                 charge == IF http = 503 \/ (http = 200 /\ ~dbUp) THEN 1 ELSE 0
                 h2  == [h1 EXCEPT !.http = http]
             IN  /\ http # 200 => dbUp
                 /\ failures + charge <= MaxFailures
                 /\ failures' = failures + charge
                 /\ IF http = 200
                      THEN /\ emails' = IF dbUp /\ up.ok THEN up.table ELSE emails
                           /\ hook' = next([h2 EXCEPT !.writes = @ + 1,
                                                      !.saved = IF dbUp /\ up.ok THEN @ \cup {hook.idx} ELSE @])
                           /\ UNCHANGED stores
                    ELSE IF http = 401
                      THEN /\ stores' = [stores EXCEPT ![store.id] = WebhookTokenInvalidUpdate(@)]
                           /\ hook' = next([h2 EXCEPT !.writes = @ + 1])
                           /\ UNCHANGED emails
                    ELSE /\ hook' = next(h2)
                         /\ UNCHANGED <<stores, emails, op>>
  /\ UNCHANGED <<clock, provider, sync, passNo, hist, tm, op, graph_subscriptions, renew>>

\* lines 135-137
Respond ==
  /\ hook.pc = "loop"
  /\ hook.idx > Len(hook.value)
  /\ hook' = [hook EXCEPT !.pc = "done",
                          !.response = [status |-> 200, body |-> "success",
                                        contentType |-> "application/json"]]
  /\ UNCHANGED <<clock, stores, emails, provider, sync, passNo, failures, hist, tm, op, graph_subscriptions, renew>>

WebhookInit ==
  /\ clock = 0
  /\ stores = [s \in StoreIds |-> InitialStore]
  /\ emails \in { {}, {HandledRow("m1")} }
  /\ provider \in { [live |-> 0, issued |-> 0], [live |-> NoToken, issued |-> 0] }
  /\ sync = IdleSync
  /\ passNo = 0
  /\ failures = 0
  /\ hist = NoHist
  /\ tm = NewTokenManager
  /\ hook = IdleHook
  /\ op = NoOperation
  /\ graph_subscriptions = NoSubscriptions
  /\ renew = IdleRenewal

WebhookNext ==
  \/ \E method \in {"POST", "OPTIONS"}, validationToken \in {NoText, EmptyText, "abc123"},
        value \in Payloads : Receive(method, validationToken, value)
  \/ ProcessNotification
  \/ Respond

WebhookSpec == WebhookInit /\ [][WebhookNext]_vars

\* an entry of a known subscription with its clientState, whose store exists and whose
\* resource names a message of the mailbox
IsValidEntry(entry) ==
  /\ ~entry.isNull
  /\ \E g \in GraphSubscriptions :
       /\ g.subscription_id = entry.subscriptionId
       /\ g.client_state = entry.clientState
       /\ g.store_id \in StoreIds
  /\ entry.resource # NoResource
  /\ Found(ResourceMessageId(entry.resource)) # {}

\* C3: Webhook isolation: in a delivery with several notification entries, an entry
\* that is malformed, skipped or fails never prevents the other entries from being
\* processed: when the handler has responded, a provider fetch was made for every valid
\* entry of the delivery, whatever its position relative to the bad entry.
C3_EveryValidEntryIsFetched ==
  (hook.pc = "done" /\ hook.method = "POST" /\ ~IsValidationRequest(hook.validationToken))
  => \A i \in 1..Len(hook.value) : IsValidEntry(hook.value[i]) => i \in hook.attempted

HandshakeResponse(token) ==
  /\ hook.response = [status |-> 200, body |-> token, contentType |-> "text/plain"]
  /\ hook.reads = 0
  /\ hook.calls = 0
  /\ hook.writes = 0

IsSpoofedEntry(entry) ==
  /\ ~entry.isNull
  /\ \A g \in GraphSubscriptions :
       g.subscription_id = entry.subscriptionId => g.client_state # entry.clientState

\* C11: Spoofed-notification rejection: the loop turn of an entry whose subscriptionId
\* matches no stored Subscription, or whose clientState differs from the stored
\* client_state, makes no provider call, changes no emails row and no stores row, and
\* leaves the handler in the loop at the next entry.
C11_SpoofedEntryIsSkipped ==
  [][ ( /\ hook.pc = "loop"
        /\ hook.idx <= Len(hook.value)
        /\ IsSpoofedEntry(hook.value[hook.idx]) )
      => ( /\ hook'.calls = hook.calls
           /\ hook'.writes = hook.writes
           /\ hook'.attempted = hook.attempted
           /\ emails' = emails
           /\ stores' = stores
           /\ hook'.pc = "loop"
           /\ hook'.idx = hook.idx + 1 ) ]_vars

C11_Witness ==
  /\ hook.pc = "done"
  /\ Len(hook.value) = 2
  /\ IsSpoofedEntry(hook.value[1])
  /\ hook.value[1].subscriptionId = "sub1"
  /\ IsValidEntry(hook.value[2])
  /\ hook.attempted = {2}
  /\ hook.saved = {2}
  /\ hook.response.status = 200

(***************************************************************************)
(* The components that can start a refresh for store "s1", side by side:   *)
(* the TokenManager's callers in the UI and a sync pass (sync-emails 71-   *)
(* 103), both calling the refresh-tokens function.                         *)
(***************************************************************************)
SystemInit ==
  /\ clock = 0
  /\ stores = [s \in StoreIds |-> InitialStore]
  /\ emails = {}
  /\ provider = [live |-> NoToken, issued |-> 0]
  /\ sync = IdleSync
  /\ passNo = 0
  /\ failures = 0
  /\ hist = NoHist
  /\ tm = NewTokenManager
  /\ hook = IdleHook
  /\ op = NoOperation
  /\ graph_subscriptions = NoSubscriptions
  /\ renew = IdleRenewal

SystemNext ==
  \/ \E c \in Callers : SilentFails(c)
  \/ \E r \in 1..NumCallers : RefreshSettles(r)
  \/ StartSync("s1", NoTime, NoTime)
  \/ ValidateToken
  \/ RefreshToken
  \/ FetchPage
  \/ ExpandMessage
  \/ SaveBatch
  \/ FinalUpdate
  \/ FinishSync

SystemSpec == SystemInit /\ [][SystemNext]_vars

\* the step in which the sync pass calls refresh-tokens for a store that holds a
\* refresh token (refresh-tokens/index.ts 81-101: the exchange is made)
SyncPassExchanges ==
  /\ sync.pc = "refreshing"
  /\ sync'.pc # "refreshing"
  /\ stores[sync.storeId].refresh_token # NoText

\* C12: System-wide single-flight refresh: counting the TokenManager and a sync pass
\* after a 401, at most one refresh-token exchange for a store is in flight: the sync
\* pass makes its exchange only when no refresh of the TokenManager is in flight.
C12_SystemWideSingleFlight ==
  [][ SyncPassExchanges => Pending = {} ]_vars

\* C13: A sync pass in which a page request was rejected with 401 (after which the pass
\* makes no refresh and no further page request) and whose final store update was
\* written ends with the store's status issue, never with active / connected.
C13_Unresolved401FlagsIssue ==
  (SyncEnded /\ sync.pageHttp = 401 /\ sync.response.success) =>
     /\ stores[sync.storeId].status = "issue"
     /\ ~(stores[sync.storeId].status = "active" /\ stores[sync.storeId].connected)

(***************************************************************************)
(* Progress of the sync pass from the end of validation to finalizing.     *)
(* The handler is one async function whose awaited calls each settle, so   *)
(* an enabled step of the pass is eventually taken; the pass reaches       *)
(* finalizing if it is never stuck and every step lowers StepsLeft.        *)
(***************************************************************************)
SyncPassStep ==
  ValidateToken \/ RefreshToken \/ FetchPage \/ ExpandMessage \/ SaveBatch \/ FinalUpdate

\* one pass for store "s1" with the default window, the provider's token expiring at
\* any moment
PassInit ==
  /\ clock = 0
  /\ stores = [s \in StoreIds |-> InitialStore]
  /\ emails \in { {}, {HandledRow("m1")} }
  /\ provider \in { [live |-> 0, issued |-> 0], [live |-> NoToken, issued |-> 0] }
  /\ sync = IdleSync
  /\ passNo = 0
  /\ failures = 0
  /\ hist = NoHist
  /\ tm = NewTokenManager
  /\ hook = IdleHook
  /\ op = NoOperation
  /\ graph_subscriptions = NoSubscriptions
  /\ renew = IdleRenewal

PassNext ==
  \/ StartSync("s1", NoTime, NoTime)
  \/ SyncPassStep
  \/ FinishSync
  \/ TokenExpires

PassSpec == PassInit /\ [][PassNext]_vars

Working == sync.pc \in {"fetching", "expanding", "persisting"}

\* lines 173-268 and 293-322: a bound on the turns the two loops still make: the pages
\* after the offset of nextLink with the messages of each, then the batches after i
StepsLeft(s) ==
  LET inWindow == Len(ListMessages(s.from, s.to))
      pages    == (inWindow + 1 - s.nextLink) * (PAGE_SIZE + 1)
      batches  == inWindow * (PAGE_SIZE + 1) + 1
  IN  CASE s.pc = "fetching"   -> batches + 1 + pages
        [] s.pc = "expanding"  -> batches + 1 + pages - s.k
        [] s.pc = "persisting" -> 1 + Len(s.allEmails) - s.i
        [] OTHER               -> 0

\* C14: Every sync pass whose validation succeeds eventually reaches finalizing,
\* whether zero, some or all persistence batches failed and whether or not pagination
\* stopped on an error: between validation and finalizing the pass always has a step
\* to take and each step brings it nearer; and the final update, when the database
\* executes it, sets the store's last_synced to the current time, its status to active
\* and connected to true.
C14_ReachesFinalizing ==
  /\ [](Working => ENABLED SyncPassStep)
  /\ [][ (Working /\ sync' # sync)
         => (StepsLeft(sync') < StepsLeft(sync) /\ sync'.pc \notin {"done", "returned", "idle"}) ]_vars
  /\ [][ (sync.pc = "finalizing" /\ sync'.pc = "done" /\ sync'.response.success)
         => ( /\ stores'[sync.storeId].last_synced = clock
              /\ stores'[sync.storeId].status = "active"
              /\ stores'[sync.storeId].connected ) ]_vars

C14_Witness ==
  /\ sync.pc = "done"
  /\ sync.response.success
  /\ sync.batchesTried > 1
  /\ sync.savedCount = 0
  /\ sync.lastSynced0 # clock
  /\ stores[sync.storeId].last_synced = clock
  /\ stores[sync.storeId].status = "active"

(***************************************************************************)
(* retryOperation (sync-emails/index.ts 15-30) on its own: a call with any *)
(* retries and delay, over any sequence of outcomes of the operation.      *)
(* value identifies the outcome (the resolved value or the thrown error);  *)
(* retryAfter is the Retry-After the provider sent with a 429, in seconds. *)
(***************************************************************************)
OperationStatuses == {200, 401, 404, 429, 500, 503, NoStatusCode}

Outcome(http, k, retryAfter) ==
  [ok |-> http = 200, statusCode |-> IF http = 200 THEN NoStatusCode ELSE http,
   value |-> <<http, k>>, retryAfter |-> IF http = 429 THEN retryAfter ELSE NoHeader]

OutcomeScripts ==
  { [k \in 1..(MAX_RETRIES + 1) |-> Outcome(h[k], k, retryAfter)] :
      h \in SeqsOfLen(OperationStatuses, MAX_RETRIES + 1), retryAfter \in RetryAfterHeaders }

RetryInit ==
  /\ clock = 0
  /\ stores = [s \in StoreIds |-> InitialStore]
  /\ emails = {}
  /\ provider = [live |-> 0, issued |-> 0]
  /\ sync = IdleSync
  /\ passNo = 0
  /\ failures = 0
  /\ hist = NoHist
  /\ tm = NewTokenManager
  /\ hook = IdleHook
  /\ op \in { [pc |-> "called", script |-> script, retries |-> retries, delay |-> delay] :
                script \in OutcomeScripts, retries \in 0..MAX_RETRIES,
                delay \in {RETRY_DELAY, RETRY_DELAY \div 2} }
  /\ graph_subscriptions = NoSubscriptions
  /\ renew = IdleRenewal

\* lines 15-30: the call settles
Settle ==
  /\ op.pc = "called"
  /\ op' = [pc |-> "settled", script |-> op.script, retries |-> op.retries, delay |-> op.delay,
            result |-> retryOperation(op.script, op.retries, op.delay)]
  /\ UNCHANGED <<clock, stores, emails, provider, sync, passNo, failures, hist, tm, hook, graph_subscriptions, renew>>

RetryNext == Settle

RetrySpec == RetryInit /\ [][RetryNext]_vars

\* C15: Retry controller classification: retryOperation invokes the operation again
\* only after an error with statusCode 429 or >= 500 and at most `retries` more times;
\* an error of any other class is propagated at once, with no wait after it; waits
\* occur only between invocations; and what the call settles with is the last
\* invocation's outcome, unchanged.
C15_RetryClassification ==
  op.pc = "settled" =>
    LET res == op.result
        n   == res.calls
        last == op.script[n]
    IN  /\ n \in 1..(op.retries + 1)
        /\ \A k \in 1..(n - 1) :
             ~op.script[k].ok /\ (op.script[k].statusCode = 429 \/ op.script[k].statusCode >= 500)
        /\ Len(res.waits) = n - 1
        /\ res.ok = last.ok
        /\ res.value = last.value
        /\ res.statusCode = last.statusCode
        /\ (~res.ok /\ (last.statusCode = 429 \/ last.statusCode >= 500)) => n = op.retries + 1

C15_Witness ==
  /\ op.pc = "settled"
  /\ op.retries = MAX_RETRIES
  /\ op.result.calls = MAX_RETRIES + 1
  /\ ~op.result.ok
  /\ op.script[1].statusCode = 429
  /\ op.result.statusCode = 503
  /\ op.result.value = <<503, MAX_RETRIES + 1>>

\* C16: Retry delay policy: the wait before retry number a that follows a 429 answer
\* carrying a Retry-After duration is that duration.
C16_RateLimitWaitIsRetryAfter ==
  op.pc = "settled" =>
    \A a \in 1..Len(op.result.waits) :
      (op.script[a].statusCode = 429 /\ op.script[a].retryAfter # NoHeader)
        => op.result.waits[a] = op.script[a].retryAfter * 1000

\* line 294: the positions of allEmails that the batch at i holds
BatchIndices(s) == (s.i + 1)..Min(s.i + BATCH_SIZE, Len(s.allEmails))

\* the row lines 273-289 make of the message at position j
RowAt(s, j) == EmailRow(Msg(s.allEmails[j]), <<passNo, j>>, s.store)

CollidesWithStored(row) == \E r \in emails : SameGraphKey(r, row) \/ SameInternetKey(r, row)

NoClashInsideBatch(s) ==
  \A j, k \in BatchIndices(s) :
    j # k => ~SameGraphKey(RowAt(s, j), RowAt(s, k)) /\ ~SameInternetKey(RowAt(s, j), RowAt(s, k))

\* C17: Persistence conflicts count as success: when a message of a batch collides
\* with a stored row on (graph_id, user_id) or (internet_message_id, user_id), the
\* batch (its upsert reaching the database, its own messages not clashing with each
\* other) is counted as saved and every message of it that collides with no stored row
\* is stored.
C17_ConflictsAreSwallowed ==
  [][ ( /\ sync.pc = "persisting"
        /\ sync'.batchesTried = sync.batchesTried + 1
        /\ sync'.dbFaults = sync.dbFaults
        /\ NoClashInsideBatch(sync) )
      => ( /\ sync'.savedCount = sync.savedCount + Cardinality(BatchIndices(sync))
           /\ \A j \in BatchIndices(sync) :
                ~CollidesWithStored(RowAt(sync, j))
                  => \E r \in emails' : r.graph_id = sync.allEmails[j] ) ]_vars

\* lines 199-204: every message the page requests of an undisturbed pass return
PageMessages(s) == { m \in Mailbox : s.from <= m.receivedDateTime /\ m.receivedDateTime <= s.to }

\* all members of a message's conversation; the message alone when it has none
Thread(m) ==
  IF m.conversationId = NoText THEN {m.id}
  ELSE { o.id : o \in { o \in Mailbox : o.conversationId = m.conversationId } }

ThreadUnion(s) == UNION { Thread(m) : m \in PageMessages(s) }

StoredIds == { r.graph_id : r \in emails }

\* A first pass that met no fault and no rejection, saved every batch and ended
\* with success, every stored row being one it wrote.
ErrorFreeFirstPass ==
  /\ SyncEnded /\ sync.response.success
  /\ passNo = 1 /\ failures = 0
  /\ sync.pageHttp = 200 /\ TokenLive(sync.accessToken)
  /\ sync.savedCount = Len(sync.allEmails)
  /\ \A r \in emails : r.id[1] = passNo

\* C18: Thread union: after an error-free sync pass over an empty store the stored
\* messages are exactly the members of the conversations of the messages the page
\* requests returned (plus the messages without conversation), each stored once; in
\* particular every message a page request returned is stored.
C18_ThreadUnion ==
  ErrorFreeFirstPass =>
    /\ StoredIds = ThreadUnion(sync)
    /\ Cardinality(emails) = Cardinality(StoredIds)
    /\ \A m \in PageMessages(sync) : m.id \in StoredIds

(***************************************************************************)
(* renew-subscriptions (renew-subscriptions/index.ts 10-99): the sweep     *)
(* over the subscriptions that expire within a day.  graph_subscriptions   *)
(* maps a subscription_id to its row; renew.joined is the stores join of   *)
(* the select, renew.accepted the subscriptions whose renewal the provider *)
(* accepted in this sweep.                                                 *)
(***************************************************************************)
\* lines 28-29
RENEWAL_HORIZON_DAYS == 1

\* lines 52-53
RENEWAL_DAYS == 3

\* store_id REFERENCES stores NOT NULL: the rows whose store exists
Renewable == { g \in GraphSubscriptions : g.store_id \in StoreIds }

ExpirationDates == {0, 5}

SubscriptionTables ==
  LET ids == { g.subscription_id : g \in Renewable }
      storeOf(id) == (CHOOSE g \in Renewable : g.subscription_id = id).store_id
  IN  { [id \in ids |-> [store_id |-> storeOf(id), expiration_date |-> e[id]]] :
          e \in [ids -> ExpirationDates] }

\* line 37: .lt('expiration_date', tomorrow)
Expiring(table, now) ==
  { id \in DOMAIN table : table[id].expiration_date < now + RENEWAL_HORIZON_DAYS }

\* the orders in which the select can return a set of rows
Orderings(S) ==
  { q \in SeqsOfLen(S, Cardinality(S)) : \A a \in S : \E j \in 1..Len(q) : q[j] = a }

\* lines 27-41
StartRenewal ==
  /\ renew.pc = "idle"
  /\ \E dbUp \in BOOLEAN :
       LET charge == IF dbUp THEN 0 ELSE 1 IN
       /\ failures + charge <= MaxFailures
       /\ failures' = failures + charge
       /\ IF dbUp
            THEN \E order \in Orderings(Expiring(graph_subscriptions, clock)) :
                   renew' = [IdleRenewal EXCEPT !.pc = "loop", !.joined = stores,
                                                !.selected = order, !.idx = 1]
          ELSE renew' = [IdleRenewal EXCEPT !.pc = "done",
                                            !.response = [status |-> 400, success |-> FALSE, renewed |-> 0]]
  /\ UNCHANGED <<clock, stores, emails, provider, sync, passNo, hist, tm, hook, op, graph_subscriptions>>

\* The mutant of C19: the Graph client reports no rejection.
NeverThrows(http) == FALSE

\* lines 55-59: the Graph client throws on every answer that is not a success
Throws(http) == http # 200

\* The mutant of C20: the catch writes nothing to the store.
NoConnectionUpdate(store) == store

\* lines 75-80
RenewalTokenInvalidUpdate(store) == [store EXCEPT !.status = "issue", !.connected = FALSE]

\* lines 43-84: one turn of the loop over the selected subscriptions
RenewSubscription ==
  /\ renew.pc = "loop"
  /\ renew.idx <= Len(renew.selected)
  /\ LET id      == renew.selected[renew.idx]
         store   == renew.joined[graph_subscriptions[id].store_id]
         answers == IF TokenLive(store.access_token) THEN {200, 503} ELSE {401, 503}
     IN  \E http \in answers, dbUp \in BOOLEAN :
           LET charge == IF http = 503 \/ (http = 200 /\ ~dbUp) THEN 1 ELSE 0
               r1 == [renew EXCEPT !.idx = @ + 1, !.calls = @ + 1, !.http = http,
                                   !.attempted = @ \cup {id},
                                   !.accepted = IF http = 200 THEN @ \cup {id} ELSE @]
           IN  /\ http # 200 => dbUp
               /\ failures + charge <= MaxFailures
               /\ failures' = failures + charge
               /\ renew' = r1
               /\ IF ~Throws(http)
                    THEN /\ graph_subscriptions' =
                              IF dbUp THEN [graph_subscriptions EXCEPT
                                              ![id].expiration_date = clock + RENEWAL_DAYS]
                              ELSE graph_subscriptions
                         /\ UNCHANGED stores
                  ELSE IF http = 401
                    THEN /\ stores' = [stores EXCEPT ![store.id] = RenewalTokenInvalidUpdate(@)]
                         /\ UNCHANGED graph_subscriptions
                  ELSE UNCHANGED <<stores, graph_subscriptions>>
  /\ UNCHANGED <<clock, emails, provider, sync, passNo, hist, tm, hook, op>>

\* lines 86-89
RenewalResponds ==
  /\ renew.pc = "loop"
  /\ renew.idx > Len(renew.selected)
  /\ renew' = [renew EXCEPT !.pc = "done",
                            !.response = [status |-> 200, success |-> TRUE,
                                          renewed |-> Len(renew.selected)]]
  /\ UNCHANGED <<clock, stores, emails, provider, sync, passNo, failures, hist, tm, hook, op, graph_subscriptions>>

\* the scheduler's next invocation finds a fresh handler
NextSweep ==
  /\ renew.pc = "done"
  /\ renew' = IdleRenewal
  /\ UNCHANGED <<clock, stores, emails, provider, sync, passNo, failures, hist, tm, hook, op, graph_subscriptions>>

RenewInit ==
  /\ clock = 0
  /\ stores = [s \in StoreIds |-> InitialStore]
  /\ emails = {}
  /\ provider \in { [live |-> 0, issued |-> 0], [live |-> NoToken, issued |-> 0] }
  /\ sync = IdleSync
  /\ passNo = 0
  /\ failures = 0
  /\ hist = NoHist
  /\ tm = NewTokenManager
  /\ hook = IdleHook
  /\ op = NoOperation
  /\ graph_subscriptions \in SubscriptionTables
  /\ renew = IdleRenewal

RenewNext ==
  \/ StartRenewal
  \/ RenewSubscription
  \/ RenewalResponds
  \/ NextSweep
  \/ Tick
  \/ TokenExpires

RenewSpec == RenewInit /\ [][RenewNext]_vars

SelectedSet(r) == { r.selected[j] : j \in 1..Len(r.selected) }

\* the step is the renewal attempt of the subscription at renew.idx
Attempts(id) ==
  /\ renew.pc = "loop" /\ renew.idx <= Len(renew.selected)
  /\ renew.selected[renew.idx] = id
  /\ renew'.idx = renew.idx + 1

\* C19: Renewal independence: in one sweep every selected subscription is attempted
\* whatever the outcome of the others (each turn of the loop moves on to the next one
\* and the sweep answers only after the last one), and a subscription's stored
\* expiration_date changes only in the attempt of that subscription and only when the
\* provider accepted its renewal.
C19_RenewalIndependence ==
  /\ []((renew.pc = "done" /\ renew.response.status = 200)
          => renew.attempted = SelectedSet(renew))
  /\ []((renew.pc = "loop" /\ renew.idx <= Len(renew.selected)) => ENABLED RenewSubscription)
  /\ [][\A id \in DOMAIN graph_subscriptions :
          Attempts(id) => /\ renew'.pc = "loop"
                          /\ renew'.selected = renew.selected
                          /\ renew'.attempted = renew.attempted \cup {id}]_vars
  /\ [][\A id \in DOMAIN graph_subscriptions :
          graph_subscriptions'[id] # graph_subscriptions[id]
            => /\ Attempts(id)
               /\ id \in renew'.accepted /\ id \notin renew.accepted]_vars

\* a sweep over two subscriptions: the first one failed and kept its expiration_date,
\* the second one was renewed
C19_Witness ==
  /\ renew.pc = "done" /\ renew.response.status = 200
  /\ Len(renew.selected) = 2
  /\ renew.selected[1] \notin renew.accepted
  /\ renew.selected[2] \in renew.accepted
  /\ graph_subscriptions[renew.selected[1]].expiration_date < clock + RENEWAL_HORIZON_DAYS
  /\ graph_subscriptions[renew.selected[2]].expiration_date = clock + RENEWAL_DAYS

(***************************************************************************)
(* A delivery to email-webhook and a renewal sweep against the same        *)
(* tables, one request after the other.                                    *)
(***************************************************************************)
RejectionInit ==
  /\ clock = 0
  /\ stores = [s \in StoreIds |-> InitialStore]
  /\ emails \in { {}, {HandledRow("m1")} }
  /\ provider \in { [live |-> 0, issued |-> 0], [live |-> NoToken, issued |-> 0] }
  /\ sync = IdleSync
  /\ passNo = 0
  /\ failures = 0
  /\ hist = NoHist
  /\ tm = NewTokenManager
  /\ hook = IdleHook
  /\ op = NoOperation
  /\ graph_subscriptions \in { t \in SubscriptionTables : Expiring(t, clock) = DOMAIN t }
  /\ renew = IdleRenewal

RejectionNext ==
  \/ /\ renew.pc = "idle"
     /\ \E method \in {"POST", "OPTIONS"}, validationToken \in {NoText, EmptyText, "abc123"},
           value \in Payloads : Receive(method, validationToken, value)
  \/ renew.pc = "idle" /\ ProcessNotification
  \/ renew.pc = "idle" /\ Respond
  \/ hook.pc \in {"idle", "done"} /\ StartRenewal
  \/ hook.pc \in {"idle", "done"} /\ RenewSubscription
  \/ hook.pc \in {"idle", "done"} /\ RenewalResponds

RejectionSpec == RejectionInit /\ [][RejectionNext]_vars

\* the step is a message fetch (email-webhook 85-88) the provider answered with 401
FetchRejected == hook'.calls = hook.calls + 1 /\ hook'.http = 401

\* the step is a renewal request (renew-subscriptions 55-59) the provider answered with 401
RenewalRejected == renew'.calls = renew.calls + 1 /\ renew'.http = 401

\* the store of the notification at hook.idx
NotifiedStore ==
  (CHOOSE g \in GraphSubscriptions :
     g.subscription_id = hook.value[hook.idx].subscriptionId).store_id

\* the store of the subscription at renew.idx
RenewedStore == graph_subscriptions[renew.selected[renew.idx]].store_id

FlaggedIssue(store) == store.status = "issue" /\ ~store.connected

\* C20: In the webhook handler and in the renewal sweep a 401 of the provider on the
\* message fetch / the renewal request sets the entry's store to status issue and
\* connected = FALSE, the request is made once and the loop moves on to the next entry,
\* and neither the stored messages nor any stored expiration_date change.
C20_RejectionFlagsConnection ==
  /\ [][FetchRejected =>
          /\ FlaggedIssue(stores'[NotifiedStore])
          /\ hook'.idx = hook.idx + 1
          /\ emails' = emails /\ graph_subscriptions' = graph_subscriptions]_vars
  /\ [][RenewalRejected =>
          /\ FlaggedIssue(stores'[RenewedStore])
          /\ renew'.idx = renew.idx + 1
          /\ emails' = emails /\ graph_subscriptions' = graph_subscriptions]_vars

\* a delivery whose fetch was rejected, followed by a sweep whose renewal was rejected
C20_Witness ==
  /\ hook.pc = "done" /\ hook.http = 401 /\ hook.calls = 1
  /\ renew.pc = "done" /\ renew.http = 401 /\ renew.calls = Len(renew.selected)
  /\ renew.accepted = {}
  /\ \A s \in StoreIds : FlaggedIssue(stores[s])

(***************************************************************************)
(* refresh-tokens called on its own with a storeId: op holds the request   *)
(* and, once answered, the stores table before it (before), the time of    *)
(* the answer (at) and the reply.                                          *)
(***************************************************************************)
MaxRefreshes == 2

RefreshStores ==
  { [s \in StoreIds |-> [InitialStore EXCEPT !.refresh_token = t, !.connected = c, !.status = st]] :
      t \in {"r0", NoText}, c \in BOOLEAN, st \in {"active", "issue"} }

RefreshInit ==
  /\ clock = 0
  /\ stores \in RefreshStores
  /\ emails = {}
  /\ provider \in { [live |-> 0, issued |-> 0], [live |-> NoToken, issued |-> 0] }
  /\ sync = IdleSync
  /\ passNo = 0
  /\ failures = 0
  /\ hist = NoHist
  /\ tm = NewTokenManager
  /\ hook = IdleHook
  /\ op = [pc |-> "none", n |-> 0]
  /\ graph_subscriptions = NoSubscriptions
  /\ renew = IdleRenewal

\* lines 35-52: the request body is parsed
RequestRefresh(storeId) ==
  /\ op.pc \in {"none", "answered"}
  /\ op.n < MaxRefreshes
  /\ op' = [pc |-> "requested", n |-> op.n + 1, storeId |-> storeId]
  /\ UNCHANGED <<clock, stores, emails, provider, sync, passNo, failures, hist, tm, hook, graph_subscriptions, renew>>

\* lines 53-191: the store is read, the exchange is made, the reply is built
AnswerRefresh ==
  /\ op.pc = "requested"
  /\ \E exchange \in ExchangeAnswers :
       LET newToken == provider.issued + 1
           reply    == RefreshTokensHandler(stores, op.storeId, exchange, newToken, clock)
       IN
       /\ stores' = reply.stores
       /\ provider' = IF reply.issued THEN [live |-> newToken, issued |-> newToken] ELSE provider
       /\ op' = [pc |-> "answered", n |-> op.n, storeId |-> op.storeId, exchange |-> exchange,
                 before |-> stores, at |-> clock,
                 reply |-> [status |-> reply.status, success |-> reply.success,
                            results |-> reply.results]]
  /\ UNCHANGED <<clock, emails, sync, passNo, failures, hist, tm, hook, graph_subscriptions, renew>>

RefreshNext ==
  \/ \E storeId \in {"s1", "s404"} : RequestRefresh(storeId)
  \/ AnswerRefresh
  \/ Tick

RefreshSpec == RefreshInit /\ [][RefreshNext]_vars

\* the request reached the token endpoint: the store exists and holds a refresh token
Exchanged ==
  /\ op.pc = "answered"
  /\ op.storeId \in DOMAIN op.before
  /\ op.before[op.storeId].refresh_token # NoText

\* C21: When the refresh exchange of a store fails with anything but invalid_grant, the
\* store's token_last_refreshed is set to the time of the attempt, its access_token,
\* refresh_token, token_expires_at and connected keep their values, and the reply
\* carries a failed result for that store.
C21_FailedRefreshKeepsTokens ==
  (Exchanged /\ op.exchange = "server_error") =>
    LET was == op.before[op.storeId]
        is  == stores[op.storeId]
    IN  /\ is.token_last_refreshed = op.at
        /\ is.access_token = was.access_token
        /\ is.refresh_token = was.refresh_token
        /\ is.token_expires_at = was.token_expires_at
        /\ is.connected = was.connected
        /\ \E j \in 1..Len(op.reply.results) :
             op.reply.results[j].storeId = op.storeId /\ ~op.reply.results[j].success

\* a connected store whose second refresh, a clock tick after the first, failed
C21_Witness ==
  /\ Exchanged /\ op.exchange = "server_error"
  /\ op.n = 2 /\ op.at = 1
  /\ op.before[op.storeId].connected
  /\ op.before[op.storeId].token_last_refreshed = 0
  /\ stores[op.storeId].token_last_refreshed = 1

(***************************************************************************)
(* The persistence phase of a sync pass and a webhook delivery running     *)
(* against the same emails table, their database statements interleaved.   *)
(***************************************************************************)
\* the lists a pass can have collected without a repeated message
DistinctLists == { list \in MessageLists : \A j, k \in 1..Len(list) : j # k => list[j] # list[k] }

InterleaveInit ==
  /\ clock = 0
  /\ stores = [s \in StoreIds |-> InitialStore]
  /\ emails = {}
  /\ provider = [live |-> 0, issued |-> 0]
  /\ sync \in { PersistingSync(list) : list \in DistinctLists }
  /\ passNo = 1
  /\ failures = 0
  /\ hist = NoHist
  /\ tm = NewTokenManager
  /\ hook = IdleHook
  /\ op = NoOperation
  /\ graph_subscriptions = NoSubscriptions
  /\ renew = IdleRenewal

InterleaveNext ==
  \/ \E value \in Payloads : Receive("POST", NoText, value)
  \/ ProcessNotification
  \/ Respond
  \/ SaveBatch

InterleaveSpec == InterleaveInit /\ [][InterleaveNext]_vars

\* sync-emails 293-322 run alone from position i, every statement reaching the database
RECURSIVE PersistAlone(_, _, _)
PersistAlone(table, list, i) ==
  IF i >= Len(list) THEN table
  ELSE LET toSave == EmailsToSave(list, InitialStore, 1)
           batch  == SubSeq(toSave, i + 1, Min(i + BATCH_SIZE, Len(toSave)))
           up     == Upsert(table, batch, SYNC_IGNORE_DUPLICATES)
       IN  PersistAlone(IF up.ok THEN up.table ELSE table, list, i + BATCH_SIZE)

\* email-webhook 44-133 run alone from entry k, every call answered
RECURSIVE DeliverAlone(_, _, _)
DeliverAlone(table, value, k) ==
  IF k > Len(value) \/ value[k].isNull THEN table
  ELSE IF ~IsValidEntry(value[k]) THEN DeliverAlone(table, value, k + 1)
  ELSE LET g   == CHOOSE g \in Found(ResourceMessageId(value[k].resource)) : TRUE
           row == EmailRow(Msg(g), <<-1, k>>, InitialStore)
           up  == Upsert(table, << row >>, WEBHOOK_IGNORE_DUPLICATES)
       IN  DeliverAlone(IF up.ok THEN up.table ELSE table, value, k + 1)

GraphIds(table) == { r.graph_id : r \in table }

BothEnded == sync.pc = "finalizing" /\ hook.pc = "done" /\ failures = 0

\* C22: Under any interleaving of a sync pass and a webhook delivery the emails table
\* holds at most one row per (graph_id, user_id), and when both have ended the stored
\* provider message ids are those left by running the two one after the other, in
\* either order.
C22_InterleavingEqualsSerial ==
  /\ \A a, b \in emails : a # b => ~SameGraphKey(a, b)
  /\ BothEnded =>
       /\ GraphIds(emails) = GraphIds(DeliverAlone(PersistAlone({}, sync.allEmails, 0), hook.value, 1))
       /\ GraphIds(emails) = GraphIds(PersistAlone(DeliverAlone({}, hook.value, 1), sync.allEmails, 0))

\* C23: Default window: a sync pass started with no syncFrom and no syncTo for a store
\* that has no stored message asks the provider for the last 24 hours: from = now - 1
\* day, to = now.
C23_DefaultWindowIsLastDay ==
  [][ ( /\ sync.pc = "idle" /\ sync'.pc = "validating"
        /\ sync'.syncFrom = NoTime /\ sync'.syncTo = NoTime
        /\ ~\E r \in emails : r.store_id = sync'.storeId )
      => ( sync'.from = clock - 1 /\ sync'.to = clock ) ]_vars

\* C24: The renewed count a renewal sweep returns is the number of subscriptions whose
\* renewal the provider accepted during the sweep; a subscription whose renewal failed
\* is not counted.
C24_RenewedCountsAccepted ==
  (renew.pc = "done" /\ renew.response.status = 200)
    => renew.response.renewed = Cardinality(renew.accepted)

(***************************************************************************)
(* One sync pass of a store that is active or flagged when the pass starts.*)
(***************************************************************************)
OrderInit ==
  /\ clock = 0
  /\ stores \in { [s \in StoreIds |-> [InitialStore EXCEPT !.status = st, !.connected = (st = "active")]] :
                    st \in {"active", "issue"} }
  /\ emails \in { {}, {HandledRow("m1")} }
  /\ provider \in { [live |-> 0, issued |-> 0], [live |-> NoToken, issued |-> 0] }
  /\ sync = IdleSync
  /\ passNo = 0
  /\ failures = 0
  /\ hist = NoHist
  /\ tm = NewTokenManager
  /\ hook = IdleHook
  /\ op = NoOperation
  /\ graph_subscriptions = NoSubscriptions
  /\ renew = IdleRenewal

OrderSpec == OrderInit /\ [][PassNext]_vars

\* the step sends a message-list or conversation request, or adds to allEmails
Fetches ==
  \/ sync'.pageCount # sync.pageCount
  \/ sync'.k # sync.k
  \/ sync'.allEmails # sync.allEmails

\* the step attempts a persistence batch or changes the emails table
Persists == sync'.batchesTried # sync.batchesTried \/ emails' # emails

\* the step turns a store that was not active into an active one
BecomesActive == \E s \in DOMAIN stores : stores[s].status # "active" /\ stores'[s].status = "active"

AllBatchesAttempted == sync.batchesTried = NumBatches(Len(sync.allEmails))

\* the ordering of fetches and writes, and the outcome of a pass whose validation failed
FetchAndPersistOrder ==
  /\ [][Fetches => sync.validated /\ sync.pc \in {"fetching", "expanding"}]_vars
  /\ [][Persists => sync.pc = "persisting" /\ sync.nextLink = NoLink]_vars
  /\ []((SyncEnded /\ ~sync.validated)
          => /\ sync.pageCount = 0 /\ sync.allEmails = <<>> /\ sync.batchesTried = 0
             /\ ~sync.response.success
             /\ stores[sync.storeId].status = "issue")

PageFailsTerminally ==
  /\ sync.pc = "fetching"
  /\ sync'.pageCount = sync.pageCount + 1
  /\ sync'.pageHttp \notin {200, 429}

\* the last page request of the pass failed terminally and the pass went on to its end
EndedAfterTerminalPageError ==
  /\ sync.pc \in {"finalizing", "done", "returned"}
  /\ sync.validated
  /\ sync.pageHttp \notin {200, 429}

C27_NoRepeatedMessage ==
  \A j, k \in 1..Len(sync.allEmails) : j # k => sync.allEmails[j] # sync.allEmails[k]

(***************************************************************************)
(* One sync pass in which every remote call is eventually answered: a step *)
(* of the handler that can be taken is eventually taken.                   *)
(***************************************************************************)
PassFairSpec == PassSpec /\ WF_vars(SyncPassStep) /\ WF_vars(FinishSync)

\* C28: Termination of a sync pass: when every remote call eventually returns or fails,
\* a pass that was started eventually returns its response, whatever the answers (429,
\* 5xx, 401, success) to its validation, page, conversation and persistence calls.
C28_PassReturns == (sync.pc # "idle") ~> (sync.pc = "returned")

\* a pass that returned after a rate-limited page request
C28_Witness ==
  /\ sync.pc = "returned"
  /\ sync.pageHttp = 429
  /\ sync.wait > 0

\* the step turns a store that was not flagged into one with status issue
BecomesIssue == \E s \in DOMAIN stores : stores[s].status # "issue" /\ stores'[s].status = "issue"

\* C29: A store's status is set to issue only as a consequence of an authentication
\* rejection: a 401 of the provider on the validation call or an invalid_grant of the
\* token endpoint; a 5xx or 429 on the validation call after the retries, or any other
\* failure of the refresh exchange, never sets it.
C29_IssueOnlyOnAuthRejection ==
  [][BecomesIssue =>
       \/ sync.pc = "validating" /\ sync'.validationStatus = 401
       \/ sync.pc = "refreshing" /\ sync'.exchange = "invalid_grant"]_vars


\* a caller's silent acquisition fails in this step and it reaches line 87
Arrives(c) == tm.callers[c].pc = "silent" /\ tm'.callers[c].pc = "awaiting"

\* C30: The in-progress map of the TokenManager holds an entry for a store exactly
\* while a refresh for that store is in flight: the entry is removed when the refresh
\* settles, whether it succeeded or failed, so a caller that arrives after a refresh
\* settled is never handed that refresh and starts a new one.
C30_EntryExactlyWhileInFlight ==
  /\ [](/\ HasRefreshInProgress(tm.refreshInProgress, "s1") <=> Pending # {}
        /\ \A r \in Pending : tm.refreshInProgress["s1"] = r)
  /\ [][\A c \in Callers : Arrives(c) =>
          /\ ~Settled(tm'.refreshes[tm'.callers[c].ref])
          /\ Pending = {} => /\ Len(tm'.refreshes) = Len(tm.refreshes) + 1
                             /\ tm'.refreshes[Len(tm'.refreshes)].by = c]_vars

C30_Witness ==
  /\ Len(tm.refreshes) = 2
  /\ tm.refreshes[1].state = "rejected"
  /\ tm.refreshes[2].state = "pending"
  /\ tm.refreshInProgress["s1"] = 2
  /\ \E c \in Callers : tm.callers[c].pc = "returned" /\ tm.callers[c].ref = 1
                        /\ tm.callers[c].state = "rejected"

====
